---- MODULE Spec2Model ----
(***************************************************************************)
(* Model of the real-time collector (src/level3/level3.py), of the         *)
(* retrying HTTP helper (src/level2/level2.py) and of two pure functions.  *)
(*                                                                         *)
(* Spec          : RealTimeIndonesianDataCollector used as its script does: *)
(*                 started once, snapshots and exports taken while the     *)
(*                 workers run, stopped at any time.                       *)
(* SpecCaller    : Spec with a caller that changes the snapshots it was     *)
(*                 handed.                                                 *)
(* SpecLifecycle : the collector under repeated start_data_collection()    *)
(*                 and stop() calls, with its worker threads.              *)
(* SpecRetry     : IndonesianDataCollector.safe_api_call, one attempt a    *)
(*                 step.                                                   *)
(* SpecExport    : export_dashboard_data applied to given histories.       *)
(* SpecSentiment : analyze_social_media_sentiment (src/bonus/bonus.py)     *)
(*                 applied to given search pages.                          *)
(* SpecScan      : IndonesianEcommerceScraper._find_state_json             *)
(*                 (src/level2/level2-task5.py) applied to given texts.    *)
(*                                                                         *)
(* Threads run under the CPython interpreter lock: deque.appendleft and    *)
(* list(deque) are single C-level operations and are atomic steps.         *)
(***************************************************************************)
EXTENDS Integers, Sequences, FiniteSets, TLC

(* ------------------------------ bounds -------------------------------- *)

\* deque(maxlen=100) and deque(maxlen=50) of level3.py:14-15, scaled down.
WeatherMaxLen == 2
NewsMaxLen == 1
\* Number of start_data_collection() calls the caller may issue.
MaxStarts == 2
\* Largest max_retries / backoff argument and number of invocations tried.
MaxRetries == 3
MaxBackoff == 2
MaxInvocations == 2
\* Anchor tags on a search page, and the largest max_posts argument.
MaxTags == 2
MaxPosts == 2
\* Length of the text given to _find_state_json.
MaxTextLen == 6

(* ------------------------------ helpers ------------------------------- *)

Sources == {"weather", "news"}

Capacity(s) == IF s = "weather" THEN WeatherMaxLen ELSE NewsMaxLen

\* Loop bodies the workers may enter in all: enough to overflow a history.
MaxBodies == WeatherMaxLen + 1

Workers == 1 .. (2 * MaxStarts)

\* Faulty variant of the thread targets: every thread runs the weather
\* worker.
SourceOfAlwaysWeather(w) == "weather"

\* start_data_collection creates a weather thread, then a news thread.
SourceOf(w) == IF w % 2 = 1 THEN "weather" ELSE "news"

WorkersOf(s) == {w \in Workers : SourceOf(w) = s}

\* Python's None.
None == [kind |-> "none"]

\* Faulty variant of the truth test: None counts as data.
TruthyAlways(d) == TRUE

\* Faulty variant of the truth test: only a reading or headline counts.
TruthyPayloadOnly(d) == d.kind = "payload"

\* The truth value `if data:` gives a fetch result: a dict with keys is
\* true, None is false.
Truthy(d) == d.kind # "none"

\* temp_C readings the weather service may report.
Temps == {30}

Min(a, b) == IF a < b THEN a ELSE b

\* Faulty variants of appendleft: one that never discards, and one that
\* discards the item at the left end instead of the one at the right end.
AppendLeftNoEvict(d, x, maxlen) == <<x>> \o d

AppendLeftEvictsNewest(d, x, maxlen) ==
    IF Len(d) < maxlen THEN <<x>> \o d
    ELSE <<x>> \o Tail(d)

\* deque.appendleft on a deque with maxlen: the new item goes to the front
\* and, when the deque was full, the item at the right end is discarded.
AppendLeft(d, x, maxlen) ==
    IF Len(d) < maxlen THEN <<x>> \o d
    ELSE SubSeq(<<x>> \o d, 1, maxlen)

\* Faulty variant of the copy: the second item is skipped.
ListCopyTorn(d) ==
    IF Len(d) >= 2 THEN <<d[1]>> \o SubSeq(d, 3, Len(d)) ELSE d

\* list(deque): a new list with the deque's items, left to right.
ListCopy(d) == [i \in 1 .. Len(d) |-> d[i]]

(* ------------------------------- state -------------------------------- *)

VARIABLES
    data_buffer,   \* self.data_buffer: source -> deque (front = index 1)
    threads,       \* self.threads: worker ids in the order they were added
    stop_event,    \* self.stop_event.is_set()
    wpc,           \* position of each worker thread
    wdata,         \* each worker's local `data` while it is live
    now,           \* per source, the last instant datetime.utcnow() gave
    cpc,           \* position of the caller thread
    cop,           \* operation the caller is inside
    partial,       \* list(self.data_buffer["weather"]) already evaluated
    returned,      \* value the caller's last snapshot / export call returned
    pushLog,       \* history variable: every point pushed, newest first
    nbody,         \* history variable: loop bodies entered, all workers
    \* ---- safe_api_call ----
    rpc,           \* position inside safe_api_call
    max_retries,   \* argument
    backoff,       \* argument
    delay,         \* local
    attempt,       \* loop variable
    server,        \* what the k-th requests.get of this invocation meets
    calls,         \* history variable: requests.get calls of this invocation
    sleeps,        \* history variable: time.sleep arguments, in order
    excs,          \* history variable: exceptions caught, in order
    result,        \* outcome delivered to the caller
    invocations,   \* history variable: failures each finished invocation saw
    \* ---- analyze_social_media_sentiment ----
    page,          \* what the download of the search page gives
    max_posts,     \* argument
    report,        \* value analyze_social_media_sentiment returned
    \* ---- _find_state_json ----
    text,          \* argument
    json_text      \* value _find_state_json returned

cvars == <<data_buffer, threads, stop_event, wpc, wdata, now, cpc, cop,
           partial, returned, pushLog, nbody>>

rvars == <<rpc, max_retries, backoff, delay, attempt, server, calls,
           sleeps, excs, result, invocations>>

pvars == <<page, max_posts, report, text, json_text>>

vars == <<cvars, rvars, pvars>>

\* A function that has not been called, or has not returned yet.
Pending == [kind |-> "pending"]

NothingReturned == [op |-> "none"]

\* RealTimeIndonesianDataCollector.__init__
CollectorInit ==
    /\ data_buffer = [s \in Sources |-> <<>>]
    /\ threads = <<>>
    /\ stop_event = FALSE
    /\ wpc = [w \in Workers |-> "unstarted"]
    /\ wdata = [w \in Workers |-> None]
    /\ now = [s \in Sources |-> 0]
    /\ cpc = "idle"
    /\ cop = "none"
    /\ partial = <<>>
    /\ returned = NothingReturned
    /\ pushLog = [s \in Sources |-> <<>>]
    /\ nbody = 0

RetryInit ==
    /\ rpc = "idle"
    /\ max_retries = 1
    /\ backoff = 1
    /\ delay = 1
    /\ attempt = 0
    /\ server = <<>>
    /\ calls = 0
    /\ sleeps = <<>>
    /\ excs = <<>>
    /\ result = [kind |-> "pending"]
    /\ invocations = <<>>

\* Neither analyze_social_media_sentiment nor _find_state_json is called.
SentimentIdle ==
    /\ page = [kind |-> "none"]
    /\ max_posts = 0
    /\ report = Pending

ScanIdle ==
    /\ text = <<>>
    /\ json_text = Pending

Init == CollectorInit /\ RetryInit /\ SentimentIdle /\ ScanIdle

(* --------------------------- caller thread ---------------------------- *)

\* Faulty variant of start_data_collection(): the stop event is cleared
\* before the threads are started.
start_clearing_event ==
    /\ cpc = "idle"
    /\ Len(threads) < 2 * MaxStarts
    /\ stop_event' = FALSE
    /\ LET wt == Len(threads) + 1
           nt == Len(threads) + 2
       IN /\ wpc' = [wpc EXCEPT ![wt] = "test", ![nt] = "test"]
          /\ threads' = threads \o <<wt, nt>>
    /\ UNCHANGED <<data_buffer, wdata, now, cpc, cop, partial, returned,
                   pushLog, nbody>>
    /\ UNCHANGED <<rvars, pvars>>

\* start_data_collection(): two new threads are started and recorded.
start_data_collection ==
    /\ cpc = "idle"
    /\ Len(threads) < 2 * MaxStarts
    /\ LET wt == Len(threads) + 1
           nt == Len(threads) + 2
       IN /\ wpc' = [wpc EXCEPT ![wt] = "test", ![nt] = "test"]
          /\ threads' = threads \o <<wt, nt>>
    /\ UNCHANGED <<data_buffer, stop_event, wdata, now, cpc, cop, partial,
                   returned, pushLog, nbody>>
    /\ UNCHANGED <<rvars, pvars>>

\* The script's use of the collector: start_data_collection() is called on
\* a collector that has not been started.
first_start ==
    /\ threads = <<>>
    /\ start_data_collection

\* threading.Event.set(): the flag is set and every thread blocked in
\* wait() is notified.
EventSet(pc) == [w \in Workers |-> IF pc[w] = "wait" THEN "notified"
                                   ELSE pc[w]]

\* stop(): self.stop_event.set(), then `for t in self.threads:
\* t.join(timeout=0)`; a join with a zero timeout returns at once whether or
\* not the thread has finished, and changes nothing.
stop ==
    /\ cpc = "idle"
    /\ stop_event' = TRUE
    /\ wpc' = EventSet(wpc)
    /\ UNCHANGED <<data_buffer, threads, wdata, now, cpc, cop, partial,
                   returned, pushLog, nbody>>
    /\ UNCHANGED <<rvars, pvars>>

\* sum(temps)
RECURSIVE Sum(_)
Sum(xs) == IF xs = <<>> THEN 0 ELSE Head(xs) + Sum(Tail(xs))

\* Faulty variant of the list of temperatures: a point without the field
\* counts as a temperature of 0.
RECURSIVE TempsOfZeroForMissing(_)
TempsOfZeroForMissing(points) ==
    IF points = <<>> THEN <<>>
    ELSE IF "temperature_c" \in DOMAIN Head(points)
         THEN <<Head(points).temperature_c>>
                  \o TempsOfZeroForMissing(Tail(points))
         ELSE <<0>> \o TempsOfZeroForMissing(Tail(points))

\* [d.get("temperature_c") for d in points if "temperature_c" in d]
RECURSIVE TempsOf(_)
TempsOf(points) ==
    IF points = <<>> THEN <<>>
    ELSE IF "temperature_c" \in DOMAIN Head(points)
         THEN <<Head(points).temperature_c>> \o TempsOf(Tail(points))
         ELSE TempsOf(Tail(points))

\* Faulty variant of the metrics: the mean is reported even without a
\* temperature.
DashboardAlwaysAverage(snap) ==
    [data |-> snap,
     metrics |-> [weather_updates |-> Len(snap.weather),
                  news_updates |-> Len(snap.news),
                  avg_temperature_c |->
                      [num |-> Sum(TempsOf(snap.weather)),
                       den |-> Len(TempsOf(snap.weather))]]]

\* Faulty variant of the metrics: the counts are read from the live deques
\* again instead of from the snapshot.
DashboardRereads(snap) ==
    LET temps == TempsOf(snap.weather)
        base == [weather_updates |-> Len(data_buffer["weather"]),
                 news_updates |-> Len(data_buffer["news"])]
    IN [data |-> snap,
        metrics |-> IF temps # <<>>
                    THEN [weather_updates |-> base.weather_updates,
                          news_updates |-> base.news_updates,
                          avg_temperature_c |->
                              [num |-> Sum(temps), den |-> Len(temps)]]
                    ELSE base]

\* export_dashboard_data(), the part after the snapshot is taken.  The mean
\* sum(temps) / len(temps) is kept as the exact fraction num / den.
Dashboard(snap) ==
    LET temps == TempsOf(snap.weather)
        base == [weather_updates |-> Len(snap.weather),
                 news_updates |-> Len(snap.news)]
        metrics == IF temps # <<>>
                   THEN [weather_updates |-> base.weather_updates,
                         news_updates |-> base.news_updates,
                         avg_temperature_c |->
                             [num |-> Sum(temps), den |-> Len(temps)]]
                   ELSE base
    IN [data |-> snap, metrics |-> metrics]

\* get_current_snapshot() / export_dashboard_data(): the dict display is
\* evaluated left to right, list(self.data_buffer["weather"]) first.
snapshot_weather(op) ==
    /\ cpc = "idle"
    /\ cpc' = "snap_news"
    /\ cop' = op
    /\ partial' = ListCopy(data_buffer["weather"])
    /\ UNCHANGED <<data_buffer, threads, stop_event, wpc, wdata, now,
                   returned, pushLog, nbody>>
    /\ UNCHANGED <<rvars, pvars>>

\* list(self.data_buffer["news"]), the return, and for an export the
\* metrics computed from the returned snapshot.
snapshot_news ==
    /\ cpc = "snap_news"
    /\ LET snap == [weather |-> partial,
                    news |-> ListCopy(data_buffer["news"])]
       IN returned' = IF cop = "export"
                      THEN [op |-> "export", snapshot |-> snap,
                            dashboard |-> Dashboard(snap)]
                      ELSE [op |-> "snapshot", snapshot |-> snap]
    /\ cpc' = "idle"
    /\ cop' = "none"
    /\ partial' = <<>>
    /\ UNCHANGED <<data_buffer, threads, stop_event, wpc, wdata, now,
                   pushLog, nbody>>
    /\ UNCHANGED <<rvars, pvars>>

(* --------------------------- worker threads --------------------------- *)

\* Faulty variant of the loop condition: the event is not consulted.
LoopForever(ev) == TRUE

\* `while not self.stop_event.is_set()`
LoopContinues(ev) == ~ev

\* Where the loop test sends a worker: into the body, or out of the loop.
AfterTest(ev) == IF LoopContinues(ev) THEN "call" ELSE "done"

\* The loop test is evaluated by worker w.
LoopTest(w) ==
    /\ LoopContinues(stop_event) => nbody < MaxBodies
    /\ wpc' = [wpc EXCEPT ![w] = AfterTest(stop_event)]
    /\ nbody' = IF LoopContinues(stop_event) THEN nbody + 1 ELSE nbody

\* The loop test of _weather_worker / _news_worker in a thread that has
\* just been started.
loop_test(w) ==
    /\ wpc[w] = "test"
    /\ LoopTest(w)
    /\ UNCHANGED <<data_buffer, threads, stop_event, wdata, now, cpc, cop,
                   partial, returned, pushLog>>
    /\ UNCHANGED <<rvars, pvars>>

\* self._fetch_weather() / self._fetch_news() is entered: requests.get is
\* sent.
fetch_begin(w) ==
    /\ wpc[w] = "call"
    /\ wpc' = [wpc EXCEPT ![w] = "fetch"]
    /\ UNCHANGED <<data_buffer, threads, stop_event, wdata, now, cpc, cop,
                   partial, returned, pushLog, nbody>>
    /\ UNCHANGED <<rvars, pvars>>

\* Values _fetch_weather can return at instant t: a reading, or the error
\* dict of its except clause.
WeatherResults(t) ==
    {[kind |-> "payload", timestamp |-> t, temperature_c |-> c] :
        c \in Temps}
    \cup {[kind |-> "error", timestamp |-> t, error |-> "exc"]}

\* Values _fetch_news can return at instant t: a headline, the error dict,
\* or None when the feed has no channel/item.
NewsResults(t) ==
    {[kind |-> "payload", timestamp |-> t, title |-> "title"],
     [kind |-> "error", timestamp |-> t, error |-> "exc"],
     None}

FetchResults(s, t) ==
    IF s = "weather" THEN WeatherResults(t) ELSE NewsResults(t)

\* `data = self._fetch_...()` returns.  A returned dict is stamped with
\* datetime.utcnow(), which gives a later instant at every reading; instants
\* are only ever compared within one source, so they are numbered per
\* source.
fetch_return(w) ==
    /\ wpc[w] = "fetch"
    /\ \E d \in FetchResults(SourceOf(w), now[SourceOf(w)] + 1) :
          /\ wdata' = [wdata EXCEPT ![w] = d]
          /\ now' = IF d # None THEN [now EXCEPT ![SourceOf(w)] = @ + 1]
                    ELSE now
    /\ wpc' = [wpc EXCEPT ![w] = "push"]
    /\ UNCHANGED <<data_buffer, threads, stop_event, cpc, cop, partial,
                   returned, pushLog, nbody>>
    /\ UNCHANGED <<rvars, pvars>>

\* `if data: self.data_buffer[...].appendleft(data)` and the entry into
\* `self.stop_event.wait(interval)`, which does not block when the event is
\* already set.  `data` is not read again before it is reassigned.
push_and_wait(w) ==
    /\ wpc[w] = "push"
    /\ LET s == SourceOf(w)
       IN IF Truthy(wdata[w])
          THEN /\ data_buffer' = [data_buffer EXCEPT
                      ![s] = AppendLeft(@, wdata[w], Capacity(s))]
               /\ pushLog' = [pushLog EXCEPT ![s] = <<wdata[w]>> \o @]
          ELSE UNCHANGED <<data_buffer, pushLog>>
    /\ wpc' = [wpc EXCEPT ![w] = IF stop_event THEN "test" ELSE "wait"]
    /\ wdata' = [wdata EXCEPT ![w] = None]
    /\ UNCHANGED <<threads, stop_event, now, cpc, cop, partial, returned,
                   nbody>>
    /\ UNCHANGED <<rvars, pvars>>

\* stop_event.wait(interval) returns because the interval ran out with the
\* event unset, and the loop test is evaluated.
wait_timeout(w) ==
    /\ wpc[w] = "wait"
    /\ LoopTest(w)
    /\ UNCHANGED <<data_buffer, threads, stop_event, wdata, now, cpc, cop,
                   partial, returned, pushLog>>
    /\ UNCHANGED <<rvars, pvars>>

\* stop_event.wait(interval) returns because the event is set, whatever is
\* left of the interval, and the loop test is evaluated.
wait_signalled(w) ==
    /\ wpc[w] = "notified"
    /\ LoopTest(w)
    /\ UNCHANGED <<data_buffer, threads, stop_event, wdata, now, cpc, cop,
                   partial, returned, pushLog>>
    /\ UNCHANGED <<rvars, pvars>>

\* A step of some worker thread.
WorkerStep ==
    \/ \E w \in Workers : loop_test(w)
    \/ \E w \in Workers : fetch_begin(w)
    \/ \E w \in Workers : fetch_return(w)
    \/ \E w \in Workers : push_and_wait(w)
    \/ \E w \in Workers : wait_timeout(w)
    \/ \E w \in Workers : wait_signalled(w)

Next ==
    \/ first_start
    \/ stop
    \/ \E op \in {"snapshot", "export"} : snapshot_weather(op)
    \/ snapshot_news
    \/ WorkerStep

Spec == Init /\ [][Next]_vars

\* An object the caller makes itself and puts into a list it holds.
CallerItem == [kind |-> "caller"]

\* `point["note"] = "caller"`: the dict object is changed in place and
\* stays the same object.
Edited(d) ==
    [k \in DOMAIN d \cup {"note"} |-> IF k = "note" THEN "caller" ELSE d[k]]

\* Two entries are the same dict object: the dicts the fetches of one source
\* create are told apart by their timestamps.
SameObject(a, b) ==
    /\ "timestamp" \in DOMAIN a
    /\ "timestamp" \in DOMAIN b
    /\ a.timestamp = b.timestamp

\* The entries of a list or deque after object p was changed in place:
\* every reference to p shows the change.
AfterEdit(points, p) ==
    [i \in 1 .. Len(points) |->
        IF SameObject(points[i], p) THEN Edited(points[i]) ELSE points[i]]

\* The snapshot the caller holds, with the list of source s replaced.
Holding(s, points) ==
    [op |-> "changed",
     snapshot |-> [returned.snapshot EXCEPT ![s] = points]]

\* The caller of get_current_snapshot() holds the returned dict and is free
\* to change it.  list(deque) made a new list object for each source, so the
\* list operations below reach only that list.
caller_appends(s) ==
    /\ cpc = "idle"
    /\ returned.op = "snapshot"
    /\ returned' = Holding(s, Append(returned.snapshot[s], CallerItem))
    /\ UNCHANGED <<data_buffer, threads, stop_event, wpc, wdata, now, cpc,
                   cop, partial, pushLog, nbody>>
    /\ UNCHANGED <<rvars, pvars>>

caller_removes(s) ==
    /\ cpc = "idle"
    /\ returned.op = "snapshot"
    /\ returned.snapshot[s] # <<>>
    /\ returned' = Holding(s, Tail(returned.snapshot[s]))
    /\ UNCHANGED <<data_buffer, threads, stop_event, wpc, wdata, now, cpc,
                   cop, partial, pushLog, nbody>>
    /\ UNCHANGED <<rvars, pvars>>

caller_replaces(s) ==
    /\ cpc = "idle"
    /\ returned.op = "snapshot"
    /\ \E i \in 1 .. Len(returned.snapshot[s]) :
          returned' = Holding(s, [returned.snapshot[s] EXCEPT ![i] = CallerItem])
    /\ UNCHANGED <<data_buffer, threads, stop_event, wpc, wdata, now, cpc,
                   cop, partial, pushLog, nbody>>
    /\ UNCHANGED <<rvars, pvars>>

\* The caller changes a point of the list in place.  list(deque) copies the
\* references, not the dicts: the list the caller holds and the live deque
\* share each point, so the change shows in both.
caller_edits_point(s) ==
    /\ cpc = "idle"
    /\ returned.op = "snapshot"
    /\ \E i \in 1 .. Len(returned.snapshot[s]) :
          LET p == returned.snapshot[s][i]
          IN /\ returned' = Holding(s, AfterEdit(returned.snapshot[s], p))
             /\ data_buffer' = [data_buffer EXCEPT ![s] = AfterEdit(@, p)]
             /\ pushLog' = [pushLog EXCEPT ![s] = AfterEdit(@, p)]
    /\ UNCHANGED <<threads, stop_event, wpc, wdata, now, cpc, cop, partial,
                   nbody>>
    /\ UNCHANGED <<rvars, pvars>>

\* A change the caller makes to the snapshot it holds.
CallerMutates ==
    \/ \E s \in Sources : caller_appends(s)
    \/ \E s \in Sources : caller_removes(s)
    \/ \E s \in Sources : caller_replaces(s)
    \/ \E s \in Sources : caller_edits_point(s)

NextCaller ==
    \/ Next
    \/ CallerMutates

SpecCaller == Init /\ [][NextCaller]_vars

(* ----------------------- export of a given history ---------------------- *)

\* temp_C readings of the histories an export is applied to.
ExportTemps == {0, 29, 32}

\* Points a weather / news history can hold at instant t.
ExportPoints(s, t) ==
    IF s = "weather"
    THEN {[kind |-> "payload", timestamp |-> t, temperature_c |-> c] :
             c \in ExportTemps}
         \cup {[kind |-> "error", timestamp |-> t, error |-> "exc"]}
    ELSE NewsResults(t) \ {None}

\* Histories of source s: up to Capacity(s) points, newest first, stamped
\* in the order they were pushed.
Histories(s) ==
    UNION {{h \in [1 .. n -> UNION {ExportPoints(s, t) : t \in 1 .. n}] :
               \A i \in 1 .. n : h[i].timestamp = n - i + 1} :
           n \in 0 .. Capacity(s)}

\* A collector that was started once and stopped, its two workers ended,
\* with any histories the workers can have left behind.
InitExport ==
    /\ data_buffer \in [Sources -> UNION {Histories(s) : s \in Sources}]
    /\ \A s \in Sources : data_buffer[s] \in Histories(s)
    /\ pushLog = data_buffer
    /\ now = [s \in Sources |-> Len(data_buffer[s])]
    /\ nbody = Len(data_buffer["weather"]) + Len(data_buffer["news"])
    /\ threads = <<1, 2>>
    /\ stop_event = TRUE
    /\ wpc = [w \in Workers |-> IF w \in {1, 2} THEN "done" ELSE "unstarted"]
    /\ wdata = [w \in Workers |-> None]
    /\ cpc = "idle"
    /\ cop = "none"
    /\ partial = <<>>
    /\ returned = NothingReturned
    /\ RetryInit
    /\ SentimentIdle
    /\ ScanIdle

NextExport ==
    \/ snapshot_weather("export")
    \/ snapshot_news

SpecExport == InitExport /\ [][NextExport]_vars

NextLifecycle ==
    \/ start_data_collection
    \/ stop
    \/ WorkerStep

SpecLifecycle == Init /\ [][NextLifecycle]_vars

(* --------------------------- safe_api_call ---------------------------- *)

\* Exceptions requests.get / raise_for_status raise.
Excs == {"Timeout", "HTTPError"}

\* What one requests.get can meet: a good response or one of the exceptions.
Outcomes == {"ok"} \cup Excs

\* Faulty variant of the test for the last attempt: one attempt too early.
LastAttemptEarly(a, m) == a = m - 2

\* `if attempt == max_retries - 1`
LastAttempt(a, m) == a = m - 1

\* The value `return response` hands back.
Response == [kind |-> "response", body |-> "body"]

\* Faulty variant of the final return: the last exception is re-raised.
ExhaustedRaises == [kind |-> "raised"]

\* The value the final `return None` hands back.
Exhausted == None

\* Faulty variant of the first delay: the delay left by the last invocation.
InitialDelayCarried(b) == delay

\* `delay = backoff`
InitialDelay(b) == b

\* Faulty variants of the delay update: no growth, and growth by 8.
NextDelayConstant(d) == d

NextDelayFast(d) == d * 8

\* `delay *= 2`
NextDelay(d) == d * 2

\* An invocation that caught `failed` exceptions ends with value v.
Return(v, failed) ==
    /\ result' = v
    /\ rpc' = "idle"
    /\ invocations' = Append(invocations, failed)

\* safe_api_call(url, m, b) is entered: `delay = backoff`, and the loop
\* `for attempt in range(max_retries)` starts, or is skipped when the range
\* is empty.
safe_api_call(m, b, srv) ==
    /\ rpc = "idle"
    /\ Len(invocations) < MaxInvocations
    /\ max_retries' = m
    /\ backoff' = b
    /\ delay' = InitialDelay(b)
    /\ attempt' = 0
    /\ server' = srv
    /\ calls' = 0
    /\ sleeps' = <<>>
    /\ excs' = <<>>
    /\ IF 0 < m
       THEN /\ rpc' = "try"
            /\ result' = [kind |-> "pending"]
            /\ UNCHANGED invocations
       ELSE Return(Exhausted, 0)
    /\ UNCHANGED <<cvars, pvars>>

\* requests.get and raise_for_status succeed: `return response`.
get_succeeds ==
    /\ rpc = "try"
    /\ server[calls + 1] = "ok"
    /\ calls' = calls + 1
    /\ Return(Response, Len(excs))
    /\ UNCHANGED <<max_retries, backoff, delay, attempt, server, sleeps,
                   excs>>
    /\ UNCHANGED <<cvars, pvars>>

\* requests.get or raise_for_status raises; the except clause runs.
get_fails ==
    /\ rpc = "try"
    /\ server[calls + 1] \in Excs
    /\ calls' = calls + 1
    /\ excs' = Append(excs, server[calls + 1])
    /\ IF LastAttempt(attempt, max_retries)
       THEN \* break, then `return None`
            /\ Return(Exhausted, Len(excs) + 1)
            /\ UNCHANGED <<delay, attempt, sleeps>>
       ELSE \* time.sleep(delay); delay *= 2; next value of the range
            /\ sleeps' = Append(sleeps, delay)
            /\ delay' = NextDelay(delay)
            /\ attempt' = attempt + 1
            /\ IF attempt + 1 < max_retries
               THEN UNCHANGED <<rpc, result, invocations>>
               ELSE Return(Exhausted, Len(excs) + 1)
    /\ UNCHANGED <<max_retries, backoff, server>>
    /\ UNCHANGED <<cvars, pvars>>

NextRetry ==
    \/ \E m \in 0 .. MaxRetries, b \in 1 .. MaxBackoff :
          \E srv \in [1 .. m -> Outcomes] : safe_api_call(m, b, srv)
    \/ get_succeeds
    \/ get_fails

SpecRetry == Init /\ [][NextRetry]_vars

(* -------------------- analyze_social_media_sentiment ------------------- *)

\* A text is a sequence of tokens: words, some capitalised, and punctuation.
Punct == {"!"}

\* Words taken from the positive and negative lists of
\* identify_sentiment_keywords; the lists have no word in common.
Positive == {"baik", "aman"}

Negative == {"rusak", "buruk"}

\* str.lower() on one token.
Lower(tok) == IF tok = "Baik" THEN "baik" ELSE tok

\* clean_news_text(text.lower()).split(): the lower-cased words, the
\* punctuation removed.
RECURSIVE Words(_)
Words(t) ==
    IF t = <<>> THEN <<>>
    ELSE IF Head(t) \in Punct THEN Words(Tail(t))
         ELSE <<Lower(Head(t))>> \o Words(Tail(t))

\* [w for w in words if w in wanted]
RECURSIVE Keep(_, _)
Keep(words, wanted) ==
    IF words = <<>> THEN <<>>
    ELSE IF Head(words) \in wanted
         THEN <<Head(words)>> \o Keep(Tail(words), wanted)
         ELSE Keep(Tail(words), wanted)

identify_sentiment_keywords(t) ==
    [positive |-> Keep(Words(t), Positive),
     negative |-> Keep(Words(t), Negative)]

\* The four CSS selectors of _parse_kaskus_html, in the order they are
\* tried.
Selectors == 1 .. 4

\* soup.select(sel): the tags a selector matches, in document order.
RECURSIVE Select(_, _)
Select(tags, sel) ==
    IF tags = <<>> THEN <<>>
    ELSE IF sel \in Head(tags).sels
         THEN <<Head(tags)>> \o Select(Tail(tags), sel)
         ELSE Select(Tail(tags), sel)

\* `for tag in soup.select(sel)`: a tag with text is appended, and the loop
\* is left once max_posts texts are held.
RECURSIVE SelectorLoop(_, _, _)
SelectorLoop(post_texts, tags, m) ==
    IF tags = <<>> THEN post_texts
    ELSE IF Head(tags).text # <<>>
         THEN IF Len(post_texts) + 1 >= m
              THEN Append(post_texts, Head(tags).text)
              ELSE SelectorLoop(Append(post_texts, Head(tags).text),
                                Tail(tags), m)
         ELSE SelectorLoop(post_texts, Tail(tags), m)

\* `for sel in selectors`, left after a selector's loop when max_posts
\* texts are held.
RECURSIVE SelectorsLoop(_, _, _, _)
SelectorsLoop(post_texts, sel, tags, m) ==
    IF sel \notin Selectors THEN post_texts
    ELSE LET after == SelectorLoop(post_texts, Select(tags, sel), m)
         IN IF Len(after) >= m THEN after
            ELSE SelectorsLoop(after, sel + 1, tags, m)

\* `for tag in soup.find_all("a")`: the test that leaves the loop follows
\* every tag, with or without text.
RECURSIVE AnchorLoop(_, _, _)
AnchorLoop(post_texts, tags, m) ==
    IF tags = <<>> THEN post_texts
    ELSE LET after == IF Head(tags).text # <<>>
                      THEN Append(post_texts, Head(tags).text)
                      ELSE post_texts
         IN IF Len(after) >= m THEN after
            ELSE AnchorLoop(after, Tail(tags), m)

Max(a, b) == IF a > b THEN a ELSE b

\* xs[:m]
SliceTo(xs, m) ==
    IF m >= 0 THEN SubSeq(xs, 1, Min(m, Len(xs)))
    ELSE SubSeq(xs, 1, Max(0, Len(xs) + m))

\* _parse_kaskus_html(html, max_posts), html given as its anchor tags.
parse_kaskus_html(tags, m) ==
    LET selected == SelectorsLoop(<<>>, 1, tags, m)
        post_texts == IF selected = <<>> THEN AnchorLoop(<<>>, tags, m)
                      ELSE selected
    IN SliceTo(post_texts, m)

\* Faulty variant of the label test: a tie counts as positive.
IsPositiveOnTie(pos, neg) == pos >= neg

\* `if pos > neg`
IsPositive(pos, neg) == pos > neg

\* The loop `for text in posts`, from the i-th post on.
RECURSIVE AnalyseLoop(_, _, _, _)
AnalyseLoop(posts, i, analysed, sentiments) ==
    IF i > Len(posts)
    THEN [kind |-> "returned", posts |-> analysed, summary |-> sentiments]
    ELSE LET keywords == identify_sentiment_keywords(posts[i])
             pos == Len(keywords.positive)
             neg == Len(keywords.negative)
             label == IF IsPositive(pos, neg) THEN "positive" ELSE "negative"
         IN AnalyseLoop(posts, i + 1,
                Append(analysed, [text |-> posts[i], sentiment |-> label,
                                  keywords |-> keywords]),
                [sentiments EXCEPT ![label] = @ + 1])

\* The value returned when nothing could be fetched.
NoPosts ==
    [kind |-> "returned", posts |-> <<>>,
     summary |-> [positive |-> 0, negative |-> 0]]

\* analyze_social_media_sentiment(keyword, max_posts)
analyze_social_media_sentiment ==
    /\ report = Pending
    /\ report' =
          IF page.kind # "ok" THEN NoPosts
          ELSE LET post_texts == parse_kaskus_html(page.tags, max_posts)
                   posts == SliceTo(post_texts, max_posts)
               IN AnalyseLoop(posts, 1, <<>>,
                              [positive |-> 0, negative |-> 0])
    /\ UNCHANGED <<page, max_posts, text, json_text>>
    /\ UNCHANGED <<cvars, rvars>>

\* Texts of anchor tags: empty, capitalised with punctuation, negative,
\* a tie, more positive than negative, without keyword, punctuation only.
Texts ==
    {<<>>, <<"Baik", "!">>, <<"rusak">>, <<"baik", "rusak">>,
     <<"baik", "aman", "buruk">>, <<"dan">>, <<"!">>}

\* Sets of selectors one tag can match: none, the first, or the second and
\* the fourth.
SelFamilies == {{}, {1}, {2, 4}}

Tags == [sels : SelFamilies, text : Texts]

\* The libraries are missing, the download failed, reading or parsing
\* raised, or the page was parsed into its anchor tags.
Pages ==
    {[kind |-> "nolib"], [kind |-> "failed"], [kind |-> "raised"]}
    \cup {[kind |-> "ok", tags |-> tags] :
              tags \in UNION {[1 .. n -> Tags] : n \in 0 .. MaxTags}}

InitSentiment ==
    /\ CollectorInit
    /\ RetryInit
    /\ ScanIdle
    /\ page \in Pages
    /\ max_posts \in 0 .. MaxPosts
    /\ report = Pending

NextSentiment == analyze_social_media_sentiment

SpecSentiment == InitSentiment /\ [][NextSentiment]_vars

(* --------------------------- _find_state_json -------------------------- *)

\* Characters of a text.  Positions are counted from 0 as in Python: the
\* character at position pos of t is t[pos + 1].
Chars == {"W", "S", "{", "}"}

\* token = "window.__STATE__", shortened to two characters.
Token == <<"W", "S">>

\* t.find(sub, from): the lowest position >= from at which sub occurs in t,
\* or -1.
Find(t, sub, from) ==
    LET hits == {i \in from .. (Len(t) - Len(sub)) :
                    SubSeq(t, i + 1, i + Len(sub)) = sub}
    IN IF hits = {} THEN -1
       ELSE CHOOSE i \in hits : \A k \in hits : i <= k

\* A returned str.
Str(cs) == [kind |-> "str", value |-> cs]

\* Faulty variant of the test on the depth: any closing brace ends the scan.
ClosesAtAnyDepth(depth) == TRUE

\* `if depth == 0`
Closes(depth) == depth = 0

\* `for pos in range(start, len(text))`, from position pos on.
RECURSIVE ScanFrom(_, _, _, _)
ScanFrom(t, start, pos, depth) ==
    IF pos >= Len(t) THEN None
    ELSE IF t[pos + 1] = "{" THEN ScanFrom(t, start, pos + 1, depth + 1)
    ELSE IF t[pos + 1] = "}"
         THEN IF Closes(depth - 1) THEN Str(SubSeq(t, start + 1, pos + 1))
              ELSE ScanFrom(t, start, pos + 1, depth - 1)
    ELSE ScanFrom(t, start, pos + 1, depth)

\* _find_state_json(text)
find_state_json(t) ==
    LET idx == Find(t, Token, 0)
    IN IF idx = -1 THEN None
       ELSE LET start == Find(t, <<"{">>, idx)
            IN IF start = -1 THEN None
               ELSE ScanFrom(t, start, start, 0)

\* The call of _find_state_json on the given text.
call_find_state_json ==
    /\ json_text = Pending
    /\ json_text' = find_state_json(text)
    /\ UNCHANGED <<page, max_posts, report, text>>
    /\ UNCHANGED <<cvars, rvars>>

InitScan ==
    /\ CollectorInit
    /\ RetryInit
    /\ SentimentIdle
    /\ text \in UNION {[1 .. n -> Chars] : n \in 0 .. MaxTextLen}
    /\ json_text = Pending

NextScan == call_find_state_json

SpecScan == InitScan /\ [][NextScan]_vars

(* ------------------------------ claims -------------------------------- *)

\* The contents of source s's history right after the j-th push, read off
\* the log of pushes (newest first).
HistoryAfter(s, j) ==
    LET n == Len(pushLog[s])
    IN SubSeq(pushLog[s], n - j + 1, n - j + Min(j, Capacity(s)))

\* Workers of source s that have been started and have not left their loop.
Active(s) == {w \in WorkersOf(s) : wpc[w] \notin {"unstarted", "done"}}

\* C1: in every reachable state the length of each source's history is at
\* most that source's capacity.
C1_BoundedLength ==
    \A s \in Sources : Len(data_buffer[s]) <= Capacity(s)

\* A push arrived at a full history.
C1_Witness ==
    \E s \in Sources :
        /\ Len(pushLog[s]) > Capacity(s)
        /\ Len(data_buffer[s]) = Capacity(s)

\* C2: a history always holds exactly the most recently pushed points, as
\* many as the capacity allows, newest first; after more than capacity
\* pushes only the oldest points are gone.
C2_MostRecent ==
    \A s \in Sources :
        data_buffer[s] =
            SubSeq(pushLog[s], 1, Min(Len(pushLog[s]), Capacity(s)))

\* The weather history has overflowed and holds the newest WeatherMaxLen
\* points.
C2_Witness ==
    /\ Len(pushLog["weather"]) = WeatherMaxLen + 1
    /\ data_buffer["weather"] = SubSeq(pushLog["weather"], 1, WeatherMaxLen)

\* C3: every list in a returned snapshot equals the source's history as it
\* was right after some push of the push sequence (or before the first).
C3_SnapshotConsistent ==
    returned.op # "none" =>
        \A s \in Sources :
            \E j \in 0 .. Len(pushLog[s]) :
                returned.snapshot[s] = HistoryAfter(s, j)

\* A snapshot was returned whose weather list was full when it was copied
\* and has been pushed over since.
C3_Witness ==
    /\ returned.op = "snapshot"
    /\ Len(returned.snapshot["weather"]) = WeatherMaxLen
    /\ returned.snapshot["weather"] # data_buffer["weather"]

\* First call of the invocation that meets a good response, 0 if none does.
FirstOk ==
    IF \E k \in 1 .. max_retries : server[k] = "ok"
    THEN CHOOSE k \in 1 .. max_retries :
             /\ server[k] = "ok"
             /\ \A i \in 1 .. (k - 1) : server[i] # "ok"
    ELSE 0

\* An invocation with max_retries >= 1 has returned.
Finished == rpc = "idle" /\ result.kind # "pending" /\ max_retries >= 1

C6_OneWorkerPerSource ==
    (Len(threads) >= 4 /\ ~stop_event) =>
        \A s \in Sources : Cardinality(Active(s)) = 1

\* C7 as stated: stop() on a collector that is already stopped or was never
\* started leaves the stop signal, the thread list and both histories as
\* they were.
C7_StopNoChange ==
    [][(stop /\ (threads = <<>> \/ stop_event)) =>
          /\ stop_event' = stop_event
          /\ threads' = threads
          /\ data_buffer' = data_buffer]_vars

\* C8: a worker that is in its interval wait when the event is set is woken
\* by it, and from there only leaves its loop: it begins no fetch and pushes
\* no point.
C8_StopDuringWait ==
    [][\A w \in Workers :
          /\ (wpc[w] = "wait" /\ stop_event') => wpc'[w] = "notified"
          /\ wpc[w] = "notified" => wpc'[w] \in {"notified", "done"}
          /\ wpc[w] = "done" => wpc'[w] = "done"
          /\ wpc[w] \in {"notified", "done"} =>
                \/ \E v \in WorkersOf(SourceOf(w)) : wpc[v] = "push"
                \/ data_buffer'[SourceOf(w)] = data_buffer[SourceOf(w)]]_vars

\* A worker that was waiting when stop() was issued has pushed a point
\* before and is now woken by the event.
C8_Witness ==
    /\ stop_event
    /\ \E w \in Workers :
          /\ wpc[w] = "notified"
          /\ pushLog[SourceOf(w)] # <<>>

\* C9 as stated: when stop() returns, every started worker has terminated.
C9_StopWaits ==
    [][stop => \A w \in Workers : wpc'[w] \in {"unstarted", "done"}]_vars

\* Worker w finishes `if data: ...appendleft(data)` in this step.
BodyDone(w) == wpc[w] = "push" /\ wpc'[w] # "push"

C11_FailureRecorded ==
    [][\A w \in Workers :
          /\ wpc[w] = "fetch" => wpc'[w] \in {"fetch", "push"}
          /\ (wpc[w] = "push" /\ wdata[w].kind = "error" /\ BodyDone(w)) =>
                /\ {"error", "timestamp"} \subseteq DOMAIN wdata[w]
                /\ pushLog'[SourceOf(w)] =
                       <<wdata[w]>> \o pushLog[SourceOf(w)]
                /\ Head(data_buffer'[SourceOf(w)]) = wdata[w]
                /\ wpc'[w] \in {"wait", "test"}
          /\ (wpc[w] # "done" /\ wpc'[w] = "done") => stop_event]_vars

\* Two weather fetches in a row failed, both error points are at the front
\* of the history, and the worker has entered a further cycle.
C11_Witness ==
    /\ Len(data_buffer["weather"]) >= 2
    /\ data_buffer["weather"][1].kind = "error"
    /\ data_buffer["weather"][2].kind = "error"
    /\ wpc[1] \in {"call", "fetch"}

\* C12: a snapshot taken before start_data_collection() was ever called is
\* returned (nothing is raised) and holds an empty list for every source; an
\* export taken then reports 0 updates for both sources and its metrics
\* have no avg_temperature_c entry.
C12_EmptyBeforeStart ==
    (threads = <<>> /\ returned.op # "none") =>
        /\ \A s \in Sources : returned.snapshot[s] = <<>>
        /\ returned.op = "export" =>
              /\ returned.dashboard.data = returned.snapshot
              /\ returned.dashboard.metrics =
                     [weather_updates |-> 0, news_updates |-> 0]

\* An export has returned on a collector that was never started.
C12_Witness ==
    /\ threads = <<>>
    /\ returned.op = "export"
    /\ cpc = "idle"

\* C13 as stated: no change the caller makes to the snapshot it holds
\* changes a live history, and no push changes the snapshot the caller
\* holds.
C13_CopyIsolated ==
    [][/\ CallerMutates => data_buffer' = data_buffer
       /\ (\E w \in Workers : push_and_wait(w)) => returned' = returned]_vars

\* C14: the dashboard an export returns is built from one snapshot.  Its
\* data lists are that snapshot, each list being the history as it stood at
\* one instant, and every metric is computed from those lists: the update
\* counts are their lengths and the average, present exactly when a listed
\* point has a temperature, is the mean of the listed temperatures,
\* whatever the workers pushed meanwhile.
C14_ExportCoherent ==
    returned.op = "export" =>
        LET d == returned.dashboard.data
            m == returned.dashboard.metrics
            temps == TempsOf(d.weather)
        IN /\ d = returned.snapshot
           /\ \A s \in Sources :
                 \E j \in 0 .. Len(pushLog[s]) : d[s] = HistoryAfter(s, j)
           /\ m.weather_updates = Len(d.weather)
           /\ m.news_updates = Len(d.news)
           /\ ("avg_temperature_c" \in DOMAIN m) = (temps # <<>>)
           /\ temps # <<>> =>
                 m.avg_temperature_c = [num |-> Sum(temps), den |-> Len(temps)]

\* An export returned an average although the weather history was pushed to
\* after the export had read it.
C14_Witness ==
    /\ returned.op = "export"
    /\ "avg_temperature_c" \in DOMAIN returned.dashboard.metrics
    /\ returned.dashboard.data["weather"] # <<>>
    /\ returned.dashboard.data["weather"] # data_buffer["weather"]

\* C15 as stated: in every history, whatever start, push and stop
\* operations came before, a point nearer the front carries a timestamp no
\* earlier than any point behind it.
C15_NewestFirst ==
    \A s \in Sources :
        \A i, j \in 1 .. Len(data_buffer[s]) :
            i < j => data_buffer[s][i].timestamp >= data_buffer[s][j].timestamp

\* C16 as stated: an export taken after the n-th weather cycle (every
\* weather cycle pushes one point, so n is the number of points pushed and
\* the exported list is the history after the last push) lists the newest
\* points, newest first, as many as the capacity allows, and reports n
\* weather updates.
C16_UpdateCountIsCycles ==
    (/\ returned.op = "export"
     /\ returned.snapshot["weather"] = data_buffer["weather"]) =>
        /\ returned.dashboard.data["weather"] =
               SubSeq(pushLog["weather"], 1,
                      Min(Len(pushLog["weather"]), WeatherMaxLen))
        /\ returned.dashboard.metrics.weather_updates = Len(pushLog["weather"])

\* C17 as stated: no worker begins a fetch in a state where the stop event
\* is set, whatever the interleaving of stop() with the loop test.
C17_NoFetchAfterStop ==
    [][\A w \in Workers :
          (wpc[w] = "call" /\ wpc'[w] = "fetch") => ~stop_event]_vars

\* 2^n
RECURSIVE Pow2(_)
Pow2(n) == IF n <= 0 THEN 1 ELSE 2 * Pow2(n - 1)

\* C18: in an invocation with max_retries >= 1 and backoff d, the i-th wait
\* lasts d * 2^(i-1); while the invocation runs every failed call so far
\* has been followed by one wait; and when it has returned there was one
\* wait for each failed call but the last of max_retries failures, and none
\* after the call that succeeded.
C18_DelaySchedule ==
    max_retries >= 1 =>
        /\ \A i \in 1 .. Len(sleeps) : sleeps[i] = backoff * Pow2(i - 1)
        /\ rpc = "try" => Len(sleeps) = calls
        /\ Finished =>
              Len(sleeps) = IF FirstOk = 0 THEN max_retries - 1
                            ELSE FirstOk - 1

\* Three calls failed with backoff 2: the waits were 2 and 4, and there was
\* none after the third failure.
C18_Witness ==
    /\ Finished
    /\ FirstOk = 0
    /\ max_retries = 3
    /\ backoff = 2
    /\ sleeps = <<2, 4>>

\* C19: for max_retries >= 1 and backoff d0 >= 1 the waits of one invocation
\* add up to at most d0 * (2^max_retries - 1), at every point of the
\* invocation and whatever the calls meet.
C19_TotalSleepBound ==
    max_retries >= 1 =>
        Sum(sleeps) <= backoff * (Pow2(max_retries) - 1)

\* Every call of an invocation with the largest max_retries failed: the
\* waits add up to d0 * (2^(max_retries - 1) - 1).
C19_Witness ==
    /\ Finished
    /\ FirstOk = 0
    /\ max_retries = MaxRetries
    /\ Len(sleeps) >= 2
    /\ Sum(sleeps) = backoff * (Pow2(max_retries - 1) - 1)

\* Invocations that came before the one running or just returned.
Earlier == IF rpc = "idle" THEN Len(invocations) - 1 ELSE Len(invocations)

\* Failed calls among the first n calls of the invocation.
Failures(n) == Cardinality({k \in 1 .. n : server[k] \in Excs})

\* C20: an invocation that follows other invocations, whatever failures
\* those saw, proceeds from its own arguments alone: while it runs, the
\* attempt number is the number of its own calls, below max_retries, and
\* the delay is backoff doubled once per call; when it has returned, the
\* number of calls, the waits and the failures it recorded are those its
\* own max_retries, backoff and responses give.
C20_IndependentBudget ==
    (Earlier >= 1 /\ max_retries >= 1) =>
        /\ rpc = "try" =>
              /\ attempt = calls
              /\ calls < max_retries
              /\ delay = backoff * Pow2(calls)
        /\ rpc = "idle" =>
              /\ calls = IF FirstOk = 0 THEN max_retries ELSE FirstOk
              /\ sleeps = [i \in 1 .. (Failures(calls) - (IF FirstOk = 0 THEN 1 ELSE 0))
                              |-> backoff * Pow2(i - 1)]
              /\ invocations[Len(invocations)] = Failures(calls)

\* After an invocation in which every call failed, a second invocation made
\* its full number of calls again, waiting backoff first.
C20_Witness ==
    /\ rpc = "idle"
    /\ Len(invocations) = 2
    /\ invocations[1] >= 2
    /\ max_retries >= 2
    /\ calls = max_retries
    /\ sleeps[1] = backoff

\* Thread w was created as a weather thread (the first of each pair
\* start_data_collection creates) or as a news thread (the second).
IsWeatherThread(w) == w % 2 = 1

\* Worker w takes a step of its own.
Steps(w) ==
    \/ wpc[w] \in {"test", "wait", "notified"} /\ wpc'[w] \in {"call", "done"}
    \/ wpc[w] = "call" /\ wpc'[w] = "fetch"
    \/ wpc[w] = "fetch" /\ wpc'[w] = "push"
    \/ wpc[w] = "push" /\ wpc'[w] # "push"

\* C21: a step of a weather thread leaves the news history as it was, a step
\* of a news thread leaves the weather history as it was, and the steps of
\* get_current_snapshot() and export_dashboard_data() leave both histories
\* as they were.
C21_OwnHistoryOnly ==
    [][/\ \A w \in Workers :
             Steps(w) =>
                 IF IsWeatherThread(w)
                 THEN data_buffer'["news"] = data_buffer["news"]
                 ELSE data_buffer'["weather"] = data_buffer["weather"]
       /\ cpc' # cpc => data_buffer' = data_buffer]_vars

\* Both workers have pushed to their histories and an export has been
\* taken of them.
C21_Witness ==
    /\ returned.op = "export"
    /\ returned.snapshot["weather"] # <<>>
    /\ returned.snapshot["news"] # <<>>

\* Every worker that entered a loop body before the stop event was set has
\* finished it: none is about to fetch, fetching, or about to push.
Quiesced ==
    /\ stop_event
    /\ \A w \in Workers : wpc[w] \notin {"call", "fetch", "push", "wait"}

\* C23: once set, the stop event stays set; a thread started while it is
\* set goes from its first loop test straight out of its loop, without a
\* fetch; and from the moment the workers that were in a loop body when the
\* event was set have finished, no worker is in a loop body again and no
\* history changes again, whatever start and stop calls follow.
C23_StoppedIsTerminal ==
    [][/\ stop_event => stop_event'
       /\ \A w \in Workers :
             /\ (stop_event /\ wpc[w] = "unstarted") =>
                    wpc'[w] \in {"unstarted", "test"}
             /\ (stop_event /\ wpc[w] = "test") => wpc'[w] \in {"test", "done"}
       /\ Quiesced => (Quiesced' /\ data_buffer' = data_buffer)]_vars

\* After a stop, a second start_data_collection() was issued and its two
\* threads have ended, as have the first two, which had collected data.
C23_Witness ==
    /\ stop_event
    /\ Len(threads) = 4
    /\ \A w \in 1 .. 4 : wpc[w] = "done"
    /\ nbody = 2
    /\ Len(pushLog["weather"]) = 1

\* Positions of the points of a list that carry the temperature field.
Carrying(points) ==
    {i \in 1 .. Len(points) : "temperature_c" \in DOMAIN points[i]}

\* The temperatures at a set of positions, added up.
RECURSIVE TotalAt(_, _)
TotalAt(points, I) ==
    IF I = {} THEN 0
    ELSE LET i == CHOOSE k \in I : TRUE
         IN points[i].temperature_c + TotalAt(points, I \ {i})

\* C22: in an export, avg_temperature_c is the sum of temperature_c over
\* the points of the exported weather list that carry the field, divided
\* by the number of those points; points without the field (error points)
\* enter neither; and the entry is absent when no point carries the field.
C22_AverageOverCarriers ==
    returned.op = "export" =>
        LET points == returned.dashboard.data["weather"]
            m == returned.dashboard.metrics
        IN IF Carrying(points) = {}
           THEN "avg_temperature_c" \notin DOMAIN m
           ELSE /\ "avg_temperature_c" \in DOMAIN m
                /\ m.avg_temperature_c.num = TotalAt(points, Carrying(points))
                /\ m.avg_temperature_c.den = Cardinality(Carrying(points))

\* An export of a weather list that holds an error point and a reading:
\* the average is that reading over one point.
C22_Witness ==
    /\ returned.op = "export"
    /\ Len(returned.dashboard.data["weather"]) = 2
    /\ Cardinality(Carrying(returned.dashboard.data["weather"])) = 1
    /\ returned.dashboard.metrics.avg_temperature_c = [num |-> 29, den |-> 1]

\* Tokens of a text that are words of a keyword list once lower-cased.
Hits(t, wanted) == {k \in 1 .. Len(t) : Lower(t[k]) \in wanted}

\* C24: in the value analyze_social_media_sentiment returns, for
\* max_posts >= 0, every post carries one of the two labels, the two
\* summary counts are the numbers of posts with each label and so add up
\* to the number of posts, there are at most max_posts posts, and a post is
\* labelled positive exactly when it has more positive than negative
\* keywords.
C24_OneLabelEach ==
    report.kind = "returned" =>
        LET posts == report.posts
            With(label) ==
                {i \in 1 .. Len(posts) : posts[i].sentiment = label}
        IN /\ \A i \in 1 .. Len(posts) :
                 /\ posts[i].sentiment \in {"positive", "negative"}
                 /\ (posts[i].sentiment = "positive") =
                        (Cardinality(Hits(posts[i].text, Positive))
                            > Cardinality(Hits(posts[i].text, Negative)))
           /\ report.summary.positive = Cardinality(With("positive"))
           /\ report.summary.negative = Cardinality(With("negative"))
           /\ report.summary.positive + report.summary.negative = Len(posts)
           /\ Len(posts) <= max_posts

\* A page with more titled threads than max_posts was analysed: one post
\* was returned, a tie, labelled negative.
C24_Witness ==
    /\ report.kind = "returned"
    /\ page.kind = "ok"
    /\ max_posts = 1
    /\ Len(page.tags) = 2
    /\ \A i \in 1 .. 2 : page.tags[i].sels = {1} /\ page.tags[i].text # <<>>
    /\ Len(report.posts) = 1
    /\ report.posts[1].text = <<"baik", "rusak">>
    /\ report.summary = [positive |-> 0, negative |-> 1]

\* Occurrences of character c among positions a .. b (counted from 1) of
\* the text.
Count(c, a, b) == Cardinality({k \in a .. b : text[k] = c})

\* text[a .. b] has as many "{" as "}" and each of its proper non-empty
\* prefixes has more "{" than "}".
Balanced(a, b) ==
    /\ Count("{", a, b) = Count("}", a, b)
    /\ \A e \in a .. (b - 1) : Count("{", a, e) > Count("}", a, e)

\* Positions (counted from 1) at which the token occurs, and the first "{"
\* at or after the first of them; 0 if there is none.
TokenAt ==
    {i \in 1 .. (Len(text) - 1) : text[i] = "W" /\ text[i + 1] = "S"}

FirstBrace ==
    IF TokenAt = {} THEN 0
    ELSE LET t == CHOOSE i \in TokenAt : \A k \in TokenAt : i <= k
             braces == {j \in t .. Len(text) : text[j] = "{"}
         IN IF braces = {} THEN 0
            ELSE CHOOSE j \in braces : \A k \in braces : j <= k

\* C25: when the token occurs and a "{" follows it, the value returned is
\* the shortest balanced substring that starts at the first such "{"; None
\* is returned when the token does not occur, when no "{" follows it, and
\* when no substring starting at that "{" is balanced.
C25_ShortestBalanced ==
    json_text # Pending =>
        LET ends == {e \in FirstBrace .. Len(text) : Balanced(FirstBrace, e)}
        IN IF FirstBrace = 0 \/ ends = {}
           THEN json_text = None
           ELSE /\ json_text.kind = "str"
                /\ \E e \in ends :
                      /\ \A k \in ends : e <= k
                      /\ json_text.value = SubSeq(text, FirstBrace, e)

\* A nested object after the token was returned whole.
C25_Witness ==
    /\ text = <<"W", "S", "{", "{", "}", "}">>
    /\ json_text = Str(<<"{", "{", "}", "}">>)

====
